---- MODULE Spec2Model ----
(***************************************************************************)
(* Model of src/util/atom/mod.rs: the interned string type Atom, its       *)
(* three constructors, its conversions to plain strings and its Eq / Ord   *)
(* / TotalOrd implementations.                                             *)
(*                                                                         *)
(* Strings (&str, ~str, StrBuf) are finite sequences of characters;        *)
(* characters are the integers 1..MaxChar, ordered as bytes are.  A        *)
(* &'static str is a fat pointer (ptr, len) into the program's read-only   *)
(* data, which is the character array rodata.                              *)
(***************************************************************************)
EXTENDS Integers, Sequences, FiniteSets, TLC

\* ---- bounds -------------------------------------------------------------
MaxChar == 3
MaxLen == 1

Char == 1..MaxChar
Str == UNION {[1..n -> Char] : n \in 0..MaxLen}

\* ---- read-only data and the static table (mod data) ---------------------
\* Writing a, b, c for the characters 1, 2, 3: rodata[1..1] = "c" and
\* rodata[2..2] = "a" are the keys of data::atoms, stored in an order that is
\* not the order of their text; rodata[3..3] is another "a" literal of the
\* program, outside the table (such as the "body" literal of the pattern
\* Static("body")).
rodata == <<3, 1, 1>>

data_atoms == {[ptr |-> 1, len |-> 1], [ptr |-> 2, len |-> 1]}

\* every &'static str the program can form: a slice of read-only data
StaticStr == {k \in [ptr : 1..Len(rodata), len : 0..MaxLen] : k.ptr + k.len - 1 <= Len(rodata)}

\* the characters a &'static str points at
deref(k) == [i \in 1..k.len |-> rodata[k.ptr + i - 1]]

None == <<>>
Some(v) == <<v>>

\* data::atoms.find_key(&s): the table's own key equal to s, if any
find_key(s) ==
    IF \E k \in data_atoms : deref(k) = s
    THEN Some(CHOOSE k \in data_atoms : deref(k) = s)
    ELSE None

\* ---- string primitives of the standard library ---------------------------
StrBuf_new == <<>>

\* s.truncate(0)
truncate(s, n) == SubSeq(s, 1, n)

\* std::mem::replace(dest, src): the old content, and dest's new content
replace(dest, src) == [old |-> dest, dest |-> src]

\* &str == &str
str_eq(x, y) == Len(x) = Len(y) /\ \A i \in 1..Len(x) : x[i] = y[i]

RECURSIVE str_cmp(_, _)
\* &str cmp: bytewise lexicographic comparison
str_cmp(x, y) ==
    IF x = <<>> /\ y = <<>> THEN "Equal"
    ELSE IF x = <<>> THEN "Less"
    ELSE IF y = <<>> THEN "Greater"
    ELSE IF Head(x) < Head(y) THEN "Less"
    ELSE IF Head(x) > Head(y) THEN "Greater"
    ELSE str_cmp(Tail(x), Tail(y))

\* &str < &str
str_lt(x, y) == str_cmp(x, y) = "Less"

\* ---- enum Atom ------------------------------------------------------------
Static(k) == [tag |-> "Static", ptr |-> k.ptr, len |-> k.len]
Owned(s) == [tag |-> "Owned", buf |-> s]

\* the &'static str inside a Static
static_str(a) == [ptr |-> a.ptr, len |-> a.len]

\* ---- constructors ----------------------------------------------------------
from_str_always_owned(s) == Owned(s)

from_str(s) ==
    LET r == find_key(s) IN
    IF r # None THEN Static(r[1]) ELSE Owned(s)

from_buf_always_owned(s) == Owned(s)

from_buf(s) ==
    LET r == find_key(s) IN
    IF r # None THEN Static(r[1]) ELSE Owned(s)

take_from_buf_no_truncate(s) ==
    LET r == find_key(s) IN
    IF r # None
    THEN [atom |-> Static(r[1]), s |-> s]
    ELSE LET m == replace(s, StrBuf_new) IN [atom |-> Owned(m.old), s |-> m.dest]

take_from_buf_no_lookup(s) ==
    LET m == replace(s, StrBuf_new) IN [atom |-> Owned(m.old), s |-> m.dest]

\* the returned atom, and the content of the slot *s after the call
take_from_buf(s) ==
    LET r == find_key(s) IN
    IF r # None
    THEN [atom |-> Static(r[1]), s |-> truncate(s, 0)]
    ELSE LET m == replace(s, StrBuf_new) IN [atom |-> Owned(m.old), s |-> m.dest]

fast_partial_eq_mixed_false(a, b) ==
    IF a.tag = "Static" /\ b.tag = "Static"
    THEN Some(a.ptr = b.ptr)
    ELSE Some(FALSE)

fast_partial_eq(a, b) ==
    IF a.tag = "Static" /\ b.tag = "Static"
    THEN Some(a.ptr = b.ptr)
    ELSE None

\* ---- impl Str for Atom -----------------------------------------------------
as_slice(a) == IF a.tag = "Static" THEN deref(static_str(a)) ELSE a.buf

into_owned(a) == IF a.tag = "Static" THEN deref(static_str(a)) ELSE a.buf

to_strbuf_empty_static(a) == IF a.tag = "Static" THEN StrBuf_new ELSE a.buf

to_strbuf(a) == IF a.tag = "Static" THEN deref(static_str(a)) ELSE a.buf

into_strbuf_empty_static(a) == IF a.tag = "Static" THEN StrBuf_new ELSE a.buf

into_strbuf(a) == IF a.tag = "Static" THEN deref(static_str(a)) ELSE a.buf

\* ---- impl Eq / Ord / TotalOrd for Atom -------------------------------------
eq_same_variant(a, b) ==
    a.tag = b.tag /\ str_eq(as_slice(a), as_slice(b))

eq(a, b) ==
    LET r == fast_partial_eq(a, b) IN
    IF r # None THEN r[1] ELSE str_eq(as_slice(a), as_slice(b))

lt_no_slow_path(a, b) ==
    LET r == fast_partial_eq(a, b) IN
    IF r # None THEN FALSE ELSE str_lt(as_slice(a), as_slice(b))

lt(a, b) ==
    LET r == fast_partial_eq(a, b) IN
    IF r = Some(TRUE) THEN FALSE ELSE str_lt(as_slice(a), as_slice(b))

cmp(a, b) ==
    LET r == fast_partial_eq(a, b) IN
    IF r = Some(TRUE) THEN "Equal" ELSE str_cmp(as_slice(a), as_slice(b))

\* ---- state -----------------------------------------------------------------
VARIABLES
    vals,    \* the caller's two Atom variables (the x and y of a comparison)
    origin,  \* origin[i]: the text vals[i] was built from, and whether by a constructor
    buf,     \* the caller's mutable StrBuf slot
    last     \* the last operation and what it returned

vars == <<vals, origin, buf, last>>

Slot == {1, 2}

\* a variable that holds no atom: not yet assigned, or moved out of
NoAtom == [tag |-> "None"]
NoOrigin == [input |-> <<>>, ctor |-> FALSE]

Live == {i \in Slot : vals[i] # NoAtom}

Init ==
    /\ vals = [i \in Slot |-> NoAtom]
    /\ origin = [i \in Slot |-> NoOrigin]
    /\ buf = StrBuf_new
    /\ last = [op |-> "init"]

\* the caller fills its slot: buf = StrBuf::from_str(s)
SetBuf(s) ==
    /\ buf' = s
    /\ last' = [op |-> "set_buf"]
    /\ UNCHANGED <<vals, origin>>

\* vals[i] = Atom::from_str(s)
FromStr(i, s) ==
    /\ vals' = [vals EXCEPT ![i] = from_str(s)]
    /\ origin' = [origin EXCEPT ![i] = [input |-> s, ctor |-> TRUE]]
    /\ last' = [op |-> "from_str", i |-> i]
    /\ UNCHANGED buf

\* vals[i] = Atom::from_buf(replace(&mut buf, StrBuf::new()))
FromBuf(i) ==
    /\ LET m == replace(buf, StrBuf_new) IN
        /\ vals' = [vals EXCEPT ![i] = from_buf(m.old)]
        /\ buf' = m.dest
    /\ origin' = [origin EXCEPT ![i] = [input |-> buf, ctor |-> TRUE]]
    /\ last' = [op |-> "from_buf", i |-> i]

\* vals[i] = Atom::take_from_buf(&mut buf)
TakeFromBuf(i) ==
    /\ LET r == take_from_buf(buf) IN
        /\ vals' = [vals EXCEPT ![i] = r.atom]
        /\ buf' = r.s
    /\ origin' = [origin EXCEPT ![i] = [input |-> buf, ctor |-> TRUE]]
    /\ last' = [op |-> "take_from_buf", i |-> i]

\* vals[i] = Owned(StrBuf::from_str(s)), as the equality test builds it
MakeOwned(i, s) ==
    /\ vals' = [vals EXCEPT ![i] = Owned(s)]
    /\ origin' = [origin EXCEPT ![i] = [input |-> s, ctor |-> FALSE]]
    /\ last' = [op |-> "Owned", i |-> i]
    /\ UNCHANGED buf

\* vals[i] = Static(k) around any &'static str of the program
MakeStatic(i, k) ==
    /\ vals' = [vals EXCEPT ![i] = Static(k)]
    /\ origin' = [origin EXCEPT ![i] = [input |-> deref(k), ctor |-> FALSE]]
    /\ last' = [op |-> "Static", i |-> i]
    /\ UNCHANGED buf

\* vals[i].as_slice()
AsSlice(i) ==
    /\ i \in Live
    /\ last' = [op |-> "as_slice", i |-> i, was |-> vals[i], out |-> as_slice(vals[i])]
    /\ UNCHANGED <<vals, origin, buf>>

\* vals[i].to_strbuf()
ToStrbuf(i) ==
    /\ i \in Live
    /\ last' = [op |-> "to_strbuf", i |-> i, was |-> vals[i], out |-> to_strbuf(vals[i])]
    /\ UNCHANGED <<vals, origin, buf>>

\* vals[i].into_owned(): the atom is moved out of the caller's variable
IntoOwned(i) ==
    /\ i \in Live
    /\ last' = [op |-> "into_owned", was |-> vals[i], from |-> origin[i],
                out |-> into_owned(vals[i])]
    /\ vals' = [vals EXCEPT ![i] = NoAtom]
    /\ origin' = [origin EXCEPT ![i] = NoOrigin]
    /\ UNCHANGED buf

\* vals[i].into_strbuf(): the atom is moved out of the caller's variable
IntoStrbuf(i) ==
    /\ i \in Live
    /\ last' = [op |-> "into_strbuf", was |-> vals[i], from |-> origin[i],
                out |-> into_strbuf(vals[i])]
    /\ vals' = [vals EXCEPT ![i] = NoAtom]
    /\ origin' = [origin EXCEPT ![i] = NoOrigin]
    /\ UNCHANGED buf

\* vals[i] == vals[j], vals[j] == vals[i], vals[i] == vals[i],
\* vals[i] < vals[j], vals[i].cmp(&vals[j])
Compare(i, j) ==
    /\ i \in Live
    /\ j \in Live
    /\ last' = [op |-> "compare", i |-> i, j |-> j,
                eq |-> eq(vals[i], vals[j]),
                sym |-> eq(vals[j], vals[i]),
                refl |-> eq(vals[i], vals[i]),
                lt |-> lt(vals[i], vals[j]),
                cmp |-> cmp(vals[i], vals[j])]
    /\ UNCHANGED <<vals, origin, buf>>

Next ==
    \/ \E s \in Str : SetBuf(s)
    \/ \E i \in Slot : \E s \in Str : FromStr(i, s)
    \/ \E i \in Slot : FromBuf(i)
    \/ \E i \in Slot : TakeFromBuf(i)
    \/ \E i \in Slot : \E s \in Str : MakeOwned(i, s)
    \/ \E i \in Slot : AsSlice(i)
    \/ \E i \in Slot : ToStrbuf(i)
    \/ \E i \in Slot : IntoOwned(i)
    \/ \E i \in Slot : IntoStrbuf(i)
    \/ \E i \in Slot : \E j \in Slot : Compare(i, j)

\* callers that use only the constructors and Owned(..)
Spec == Init /\ [][Next]_vars

NextEnum ==
    \/ Next
    \/ \E i \in Slot : \E k \in StaticStr : MakeStatic(i, k)

\* callers that also build Static(..) around a &'static str of their own
SpecEnum == Init /\ [][NextEnum]_vars

\* ---- vocabulary of the properties ------------------------------------------
InTable(s) == \E k \in data_atoms : deref(k) = s

\* x < y lexicographically: x is a proper prefix of y, or they first differ
\* at a position where x has the smaller character
LexLess(x, y) ==
    \E k \in 0..Len(x) :
        /\ k <= Len(y)
        /\ \A i \in 1..k : x[i] = y[i]
        /\ \/ k = Len(x) /\ k < Len(y)
           \/ k < Len(x) /\ k < Len(y) /\ x[k + 1] < y[k + 1]

LexCmp(x, y) == IF x = y THEN "Equal" ELSE IF LexLess(x, y) THEN "Less" ELSE "Greater"

Constructed == {i \in Live : origin[i].ctor}

Newest == last.i

\* ---- properties ------------------------------------------------------------

\* C1: every atom returned by from_str, from_buf or take_from_buf for a text
\* s is the Static variant holding the table's own entry for s when s is a
\* key of the table, and the Owned variant holding exactly s otherwise.
C1_InterningDecision ==
    \A i \in Constructed :
        LET a == vals[i]
            s == origin[i].input
        IN  /\ InTable(s) => /\ a.tag = "Static"
                             /\ static_str(a) \in data_atoms
                             /\ deref(static_str(a)) = s
            /\ ~InTable(s) => a = Owned(s)

C1_Witness ==
    /\ last.op = "from_buf"
    /\ Constructed = {1, 2}
    /\ vals[1].tag = "Owned" /\ vals[1].buf # <<>>
    /\ vals[2].tag = "Static"

C3_OrderIsLexicographic ==
    (last.op = "compare" /\ last.i \in Constructed /\ last.j \in Constructed) =>
        LET x == origin[last.i].input
            y == origin[last.j].input
        IN  /\ last.lt <=> LexLess(x, y)
            /\ last.cmp = LexCmp(x, y)

C3_Witness ==
    /\ last.op = "compare"
    /\ Constructed = {1, 2}
    /\ vals[last.i].tag = "Static"
    /\ vals[last.j].tag = "Static"
    /\ last.lt
    /\ last.cmp = "Less"

\* C4: after take_from_buf the slot holds the empty string, on a table hit
\* and on a miss, and the returned atom equals from_str of the text the slot
\* held before the call.
C4_TakeLeavesEmptySlot ==
    last.op = "take_from_buf" =>
        /\ buf = <<>>
        /\ eq(vals[Newest], from_str(origin[Newest].input))
        /\ eq(from_str(origin[Newest].input), vals[Newest])

C4_Witness ==
    /\ last.op = "take_from_buf"
    /\ InTable(origin[Newest].input)
    /\ vals[Newest].tag = "Static"
    /\ buf = <<>>

\* C5: take_from_buf(&mut s) has the outcome of from_buf(replace(&mut s,
\* StrBuf::new())): the same atom (variant, text, table entry) and the same
\* empty slot.
C5_TakeIsFromBufOfReplace ==
    last.op = "take_from_buf" =>
        LET m == replace(origin[Newest].input, StrBuf_new) IN
            /\ vals[Newest] = from_buf(m.old)
            /\ buf = m.dest

C5_Witness ==
    /\ last.op = "take_from_buf"
    /\ ~InTable(origin[Newest].input)
    /\ origin[Newest].input # <<>>
    /\ vals[Newest].tag = "Owned"

\* C6: round trip: for a constructed atom a, from_str(a.as_slice()) == a, and
\* from_buf(a.into_strbuf()) and from_str(a.into_owned()) are equal to a and
\* of a's variant.
C6_RoundTrip ==
    /\ (last.op = "as_slice" /\ last.i \in Constructed) =>
            /\ eq(from_str(last.out), vals[last.i])
            /\ from_str(last.out).tag = vals[last.i].tag
    /\ (last.op = "into_strbuf" /\ last.from.ctor) =>
            /\ eq(from_buf(last.out), last.was)
            /\ from_buf(last.out).tag = last.was.tag
    /\ (last.op = "into_owned" /\ last.from.ctor) =>
            /\ eq(from_str(last.out), last.was)
            /\ from_str(last.out).tag = last.was.tag

C6_Witness ==
    /\ last.op = "into_strbuf"
    /\ last.from.ctor
    /\ last.was.tag = "Static"
    /\ last.out # <<>>

\* C7: two atoms constructed from equal texts, by whichever constructors and
\* with whatever constructed in between, are equal under ==; when the text
\* is a key of the table both are Static with the same address.
C7_ConstructionIdempotent ==
    \A i \in Constructed : \A j \in Constructed :
        origin[i].input = origin[j].input =>
            /\ eq(vals[i], vals[j])
            /\ InTable(origin[i].input) =>
                    /\ vals[i].tag = "Static"
                    /\ vals[j].tag = "Static"
                    /\ vals[i].ptr = vals[j].ptr

C7_Witness ==
    /\ last.op = "take_from_buf"
    /\ Constructed = {1, 2}
    /\ origin[1].input = origin[2].input
    /\ InTable(origin[1].input)
    /\ vals[1].ptr = vals[2].ptr

\* C8: among atoms made by the constructors, two Static atoms have the same
\* address exactly when they have the same text; fast_partial_eq answers
\* Some(address equality) for two Statics and None otherwise, and an answer
\* Some(b) always has b = (the texts are equal).
C8_FastPathSound ==
    \A i \in Live : \A j \in Live :
        LET a == vals[i]
            b == vals[j]
            r == fast_partial_eq(a, b)
        IN  /\ (a.tag = "Static" /\ b.tag = "Static") =>
                    /\ (a.ptr = b.ptr) <=> (as_slice(a) = as_slice(b))
                    /\ r = Some(a.ptr = b.ptr)
            /\ ~(a.tag = "Static" /\ b.tag = "Static") => r = None
            /\ r # None => (r[1] <=> (as_slice(a) = as_slice(b)))

C8_Witness ==
    /\ last.op = "compare"
    /\ vals[1].tag = "Static"
    /\ vals[2].tag = "Static"
    /\ vals[1].ptr # vals[2].ptr
    /\ ~last.eq

\* C9: for a constructed atom of text s, as_slice, to_strbuf, into_owned and
\* into_strbuf each yield exactly s; as_slice and to_strbuf leave the atom as
\* it was, still equal to from_str(s).
C9_ConversionsYieldText ==
    /\ (last.op \in {"as_slice", "to_strbuf"} /\ last.i \in Constructed) =>
            /\ last.out = origin[last.i].input
            /\ vals[last.i] = last.was
            /\ eq(vals[last.i], from_str(origin[last.i].input))
    /\ (last.op \in {"into_owned", "into_strbuf"} /\ last.from.ctor) =>
            last.out = last.from.input

C9_Witness ==
    /\ last.op = "to_strbuf"
    /\ last.i \in Constructed
    /\ vals[last.i].tag = "Static"
    /\ last.out = origin[last.i].input
    /\ last.out # <<>>

\* C10: over every pair of values of the enum, a Static around a &'static
\* str outside the table included, a == b holds exactly when a.cmp(b) is
\* Equal and a < b exactly when a.cmp(b) is Less, and == is reflexive and
\* symmetric.
C10_EqAgreesWithCmp ==
    last.op = "compare" =>
        /\ last.eq <=> (last.cmp = "Equal")
        /\ last.lt <=> (last.cmp = "Less")
        /\ last.refl
        /\ last.eq <=> last.sym

====
